---- MODULE Spec2Model ----
(***************************************************************************)
(* The ELO rating engine of pythia/cleaning/elo.py as a state machine,      *)
(* followed by the functions of pythia/cleaning/midnight_rotation.py and   *)
(* the BaseTimeSeriesDataset of pythia/learning/datasets.py.               *)
(*                                                                         *)
(* One ELO object is modelled: its attributes, the rankings DataFrame, the *)
(* position of run() in its loop over the score board, and the exception  *)
(* (if any) that ended the latest call made on the object.                 *)
(***************************************************************************)
EXTENDS Integers, Sequences, FiniteSets, TLC

\* ---------------------------------------------------------------- bounds
\* The score board holds at most MaxRows rows.
MaxRows == 2

\* ---------------------------------------------------------------- inputs
\* Player ids that occur in score boards and in direct score_update calls.
Ids == {1, 2}
\* `0` denotes less complex, `1` denotes more complex (elo.py:131).
Outcomes == {0, 1}

\* The three columns of the Sunspotter classifications table (elo.py:17-19).
ClassificationColumns == {"image_id_0", "image_id_1", "image0_more_complex_image1"}
\* Score boards either carry all three columns or lack the outcome column.
ColumnSets == {ClassificationColumns, {"image_id_0", "image_id_1"}}

Roles == {"player 0", "player 1", "score for player 0"}
\* The default column_map of ELO.__init__ (elo.py:17-19).
DefaultColumnMap ==
    ("player 0" :> "image_id_0") @@ ("player 1" :> "image_id_1")
        @@ ("score for player 0" :> "image0_more_complex_image1")
\* The column_map of test_incorrect_column_map (test_elo.py:61-63).
IncorrectColumnMap ==
    ("player 0" :> "This is not player 0") @@ ("player 1" :> "This is not player 1")
        @@ ("score for player 0" :> "Player 0 is in it for the fun")
ColumnMaps == {DefaultColumnMap, IncorrectColumnMap}

\* Constructor arguments (elo.py:15-16); 32, 1400, 32/16 and 10 are the defaults.
KValues == {8, 32, 40}
DefaultScores == {1400}
ScoreChanges == {[min |-> 16, max |-> 32], [min |-> 32, max |-> 16]}
ScoreMemories == {0, 1, 10}
\* max_comparisons: the default 50, and a limit smaller than the board.
MaxComparisons == {1, 50}

\* ---------------------------------------------------------------- state
VARIABLES
    pc,            \* where the caller stands: "new", "init_raised", "idle",
                   \* "run", "run_returned", "run_raised", "update_returned",
                   \* "update_raised"
    error,         \* the exception that ended the latest call, or NoError
    score_board,   \* self.score_board: [columns, rows]; shared with the caller
    k_value,       \* self.k_value
    default_score, \* self.default_score
    score_change,  \* self.score_change: [min, max]
    score_memory,  \* self.score_memory
    column_map,    \* self.column_map
    max_comparisions, \* self.max_comparisions
    has_rankings,  \* whether the attribute self.rankings exists
    rankings,      \* self.rankings: player id -> row of the DataFrame
    run_idx,       \* rows of the score board run() has finished handling
    save_to_disk,  \* the argument of the run() in progress
    csv,           \* the tables written by DataFrame.to_csv
    last_call,     \* the latest score_update invocation of the current call
    op,            \* the function applied on its own ("none": none yet)
    input,         \* the arguments it is applied to
    output,        \* what it returned or raised
    dataset        \* the BaseTimeSeriesDataset object, once one is constructed

\* The ELO object and the call in progress on it.
elo == <<pc, error, score_board, k_value, default_score, score_change,
         score_memory, column_map, max_comparisions, has_rankings, rankings,
         run_idx, save_to_disk, csv, last_call>>
\* A function applied on its own to arguments drawn at the start.
applied == <<op, input, output, dataset>>

vars == <<elo, applied>>

NoError == [type |-> "none", line |-> 0]
Raised(type, line) == [type |-> type, line |-> line]

NoCall == [image_0 |-> 0, image_1 |-> 0, score_for_image_0 |-> 0, by |-> "none"]
Call(image_0, image_1, score, by) ==
    [image_0 |-> image_0, image_1 |-> image_1, score_for_image_0 |-> score, by |-> by]

\* ---------------------------------------------------------------- score boards
MkRow(a, b, s, cols) ==
    [c \in cols |-> IF c = "image_id_0" THEN a ELSE IF c = "image_id_1" THEN b ELSE s]
Rows(cols) == {MkRow(a, b, s, cols) : a \in Ids, b \in Ids, s \in Outcomes}

SeqsUpTo(S, n) == UNION {[1..m -> S] : m \in 0..n}
ScoreBoards ==
    UNION {{[columns |-> cols, rows |-> rs] : rs \in SeqsUpTo(Rows(cols), MaxRows)}
           : cols \in ColumnSets}

\* ---------------------------------------------------------------- ELO.__init__
missing_columns_players_only(cmap, board) ==
    {cmap[r] : r \in {"player 0", "player 1"}} \ board.columns

missing_columns_or_no_rows(cmap, board) ==
    IF board.rows = <<>> THEN {cmap[r] : r \in Roles}
    ELSE {cmap[r] : r \in Roles} \ board.columns

\* elo.py:53-58: the mapped columns must all be columns of the score board.
missing_columns(cmap, board) == {cmap[r] : r \in Roles} \ board.columns

image_ids_player_0_only(cmap, board) ==
    {board.rows[i][cmap["player 0"]] : i \in DOMAIN board.rows}

\* elo.py:66: the ids of both player columns.
image_ids(cmap, board) ==
    {board.rows[i][cmap["player 0"]] : i \in DOMAIN board.rows}
        \cup {board.rows[i][cmap["player 1"]] : i \in DOMAIN board.rows}

\* The columns of self.rankings (elo.py:67-73).
RankingColumns == {"player id", "score", "k value", "count", "std dev", "last scores"}

\* 'last scores' is a comma-joined string; it is held as the sequence of its
\* comma-separated fields.  str(default_score) is one field (elo.py:73).
NewRecord(id, score, k, std_dev, last_scores) ==
    ("player id" :> id) @@ ("score" :> score) @@ ("k value" :> k) @@ ("count" :> 0)
        @@ ("std dev" :> std_dev) @@ ("last scores" :> last_scores)

_create_ranking_k_from_score(cmap, board, d_score, k, s_change) ==
    [id \in image_ids(cmap, board) |-> NewRecord(id, d_score, d_score, s_change.max, <<d_score>>)]

_create_ranking_two_scores(cmap, board, d_score, k, s_change) ==
    [id \in image_ids(cmap, board) |-> NewRecord(id, d_score, k, s_change.max, <<d_score, d_score>>)]

_create_ranking_history_of_k(cmap, board, d_score, k, s_change) ==
    [id \in image_ids(cmap, board) |-> NewRecord(id, d_score, k, s_change.max, <<k>>)]

_create_ranking_empty_history(cmap, board, d_score, k, s_change) ==
    [id \in image_ids(cmap, board) |-> NewRecord(id, d_score, k, s_change.max, <<>>)]

\* elo.py:62-73
_create_ranking(cmap, board, d_score, k, s_change) ==
    [id \in image_ids(cmap, board) |-> NewRecord(id, d_score, k, s_change.max, <<d_score>>)]

\* elo.py:15-60
__init__ ==
    /\ pc = "new"
    /\ \E board \in ScoreBoards, k \in KValues, d_score \in DefaultScores,
          s_change \in ScoreChanges, memory \in ScoreMemories, cmap \in ColumnMaps,
          comparisons \in MaxComparisons :
        /\ score_board' = board
        /\ k_value' = k
        /\ default_score' = d_score
        /\ score_change' = s_change
        /\ score_memory' = memory
        /\ column_map' = cmap
        /\ max_comparisions' = comparisons
        /\ IF missing_columns(cmap, board) # {}
           THEN /\ pc' = "init_raised"
                /\ error' = Raised("SunpyUserWarning", 57)
                /\ UNCHANGED <<has_rankings, rankings>>
           ELSE /\ pc' = "idle"
                /\ error' = NoError
                /\ has_rankings' = TRUE
                /\ rankings' = _create_ranking(cmap, board, d_score, k, s_change)
    /\ UNCHANGED <<run_idx, save_to_disk, csv, last_call>>
    /\ UNCHANGED applied

\* ---------------------------------------------------------------- ELO.score_update
\* The outcome of a call: the rankings it leaves and the exception it raised.
Outcome(rk, err) == [rankings |-> rk, error |-> err]

score_update_skip_unknown(rk, image_0, image_1, score_for_image_0) ==
    IF image_0 \notin DOMAIN rk \/ image_1 \notin DOMAIN rk
    THEN Outcome(rk, NoError)
    ELSE Outcome(rk, Raised("NameError", 149))

score_update_partial(rk, image_0, image_1, score_for_image_0) ==
    IF image_0 \notin DOMAIN rk THEN Outcome(rk, Raised("KeyError", 140))
    ELSE IF image_1 \notin DOMAIN rk THEN Outcome(rk, Raised("KeyError", 142))
    ELSE Outcome([rk EXCEPT ![image_0]["count"] = @ + 1], Raised("NameError", 149))

score_update_counts_all(rk, image_0, image_1, score_for_image_0) ==
    IF image_0 \notin DOMAIN rk THEN Outcome(rk, Raised("KeyError", 140))
    ELSE IF image_1 \notin DOMAIN rk THEN Outcome(rk, Raised("KeyError", 142))
    ELSE Outcome([id \in DOMAIN rk |-> [rk[id] EXCEPT !["count"] = @ + 1]],
                 Raised("NameError", 149))

score_update_stamps(rk, image_0, image_1, score_for_image_0) ==
    IF image_0 \notin DOMAIN rk THEN Outcome(rk, Raised("KeyError", 140))
    ELSE IF image_1 \notin DOMAIN rk THEN Outcome(rk, Raised("KeyError", 142))
    ELSE LET latest == CHOOSE n \in {rk[id]["count"] : id \in DOMAIN rk} :
                           \A id \in DOMAIN rk : rk[id]["count"] <= n
         IN Outcome([id \in DOMAIN rk |->
                        IF id \in {image_0, image_1}
                        THEN [rk[id] EXCEPT !["count"] = latest + 1] ELSE rk[id]],
                    Raised("NameError", 149))

score_update_counts(rk, image_0, image_1, score_for_image_0) ==
    IF image_0 \notin DOMAIN rk THEN Outcome(rk, Raised("KeyError", 140))
    ELSE IF image_1 \notin DOMAIN rk THEN Outcome(rk, Raised("KeyError", 142))
    ELSE Outcome([id \in DOMAIN rk |->
                    IF id \in {image_0, image_1}
                    THEN [rk[id] EXCEPT !["count"] = @ + 1] ELSE rk[id]],
                 NoError)

\* elo.py:119-157.  self.rankings.loc[image] raises KeyError for a label that
\* is not in the index (140, 142).  Lines 145-147 only compute.  Line 149
\* calls _update_state_dict by its bare name; the def at line 159 is an
\* attribute of the class ELO, which is in no scope a method body looks names
\* up in, so the call raises NameError and lines 150-157 never run.
score_update(rk, image_0, image_1, score_for_image_0) ==
    IF image_0 \notin DOMAIN rk THEN Outcome(rk, Raised("KeyError", 140))
    ELSE IF image_1 \notin DOMAIN rk THEN Outcome(rk, Raised("KeyError", 142))
    ELSE Outcome(rk, Raised("NameError", 149))

Callable == pc \in {"idle", "run_returned", "run_raised", "update_returned", "update_raised"}

\* A direct call of the public method score_update.
score_update_call ==
    /\ Callable
    /\ \E image_0 \in Ids, image_1 \in Ids, score_for_image_0 \in Outcomes :
        LET out == score_update(rankings, image_0, image_1, score_for_image_0) IN
        /\ rankings' = out.rankings
        /\ error' = out.error
        /\ pc' = IF out.error = NoError THEN "update_returned" ELSE "update_raised"
        /\ last_call' = Call(image_0, image_1, score_for_image_0, "caller")
    /\ run_idx' = 0
    /\ save_to_disk' = FALSE
    /\ UNCHANGED <<score_board, k_value, default_score, score_change, score_memory,
                   column_map, max_comparisions, has_rankings, csv>>
    /\ UNCHANGED applied

\* ---------------------------------------------------------------- ELO.save_as_csv
Written(rk, err, files) == [rankings |-> rk, error |-> err, csv |-> files]

\* elo.py:195-205.  DataFrame.drop raises KeyError for a label that is no column.
save_as_csv(rk, files) ==
    IF "last_scores" \notin RankingColumns
    THEN Written(rk, Raised("KeyError", 204), files)
    ELSE LET kept == RankingColumns \ {"last_scores"}
             table == [id \in DOMAIN rk |-> [c \in kept |-> rk[id][c]]]
         IN Written(table, NoError, Append(files, table))

\* ---------------------------------------------------------------- ELO.run
never_self_match(row, cmap) == FALSE

\* elo.py:185
IsSelfMatch(row, cmap) == row[cmap["player 0"]] = row[cmap["player 1"]]

\* elo.py:172: run(save_to_disk, filename) is called.
run_begin ==
    /\ Callable
    /\ \E save \in BOOLEAN : save_to_disk' = save
    /\ pc' = "run"
    /\ run_idx' = 0
    /\ error' = NoError
    /\ last_call' = NoCall
    /\ UNCHANGED <<score_board, k_value, default_score, score_change, score_memory,
                   column_map, max_comparisions, has_rankings, rankings, csv>>
    /\ UNCHANGED applied

\* elo.py:183-190: one iteration of the loop over score_board.iterrows().
run_row ==
    /\ pc = "run"
    /\ run_idx < Len(score_board.rows)
    /\ LET row == score_board.rows[run_idx + 1] IN
       IF IsSelfMatch(row, column_map)
       THEN /\ run_idx' = run_idx + 1
            /\ UNCHANGED <<pc, error, rankings, last_call>>
       ELSE LET image_0 == row[column_map["player 0"]]
                image_1 == row[column_map["player 1"]]
                score_for_image_0 == row[column_map["score for player 0"]]
                out == score_update(rankings, image_0, image_1, score_for_image_0)
            IN /\ rankings' = out.rankings
               /\ last_call' = Call(image_0, image_1, score_for_image_0, "run")
               /\ error' = out.error
               /\ IF out.error = NoError
                  THEN run_idx' = run_idx + 1 /\ pc' = "run"
                  ELSE run_idx' = run_idx /\ pc' = "run_raised"
    /\ UNCHANGED <<score_board, k_value, default_score, score_change, score_memory,
                   column_map, max_comparisions, has_rankings, save_to_disk, csv>>
    /\ UNCHANGED applied

\* elo.py:192-193: the loop is exhausted.
run_end ==
    /\ pc = "run"
    /\ run_idx = Len(score_board.rows)
    /\ IF save_to_disk
       THEN LET out == save_as_csv(rankings, csv) IN
            /\ rankings' = out.rankings
            /\ csv' = out.csv
            /\ error' = out.error
            /\ pc' = IF out.error = NoError THEN "run_returned" ELSE "run_raised"
       ELSE /\ pc' = "run_returned"
            /\ UNCHANGED <<rankings, csv, error>>
    /\ UNCHANGED <<score_board, k_value, default_score, score_change, score_memory,
                   column_map, max_comparisions, has_rankings, run_idx, save_to_disk,
                   last_call>>
    /\ UNCHANGED applied

\* ---------------------------------------------------------------- the caller
\* elo.py:45 keeps a reference to the caller's DataFrame, not a copy: a row
\* the caller adds to it between two calls is seen by the next run().
board_append ==
    /\ Callable
    /\ Len(score_board.rows) < MaxRows
    /\ \E row \in Rows(score_board.columns) :
        score_board' = [score_board EXCEPT !.rows = Append(@, row)]
    /\ UNCHANGED <<pc, error, k_value, default_score, score_change, score_memory,
                   column_map, max_comparisions, has_rankings, rankings, run_idx,
                   save_to_disk, csv, last_call>>
    /\ UNCHANGED applied

\* ---------------------------------------------------------------- specification
\* No function is being applied on its own.
NotApplied ==
    /\ op = "none"
    /\ input = <<>>
    /\ output = <<>>
    /\ dataset = <<>>

\* No ELO object exists yet.
NoObject ==
    /\ pc = "new"
    /\ error = NoError
    /\ score_board = [columns |-> {}, rows |-> <<>>]
    /\ k_value = 0
    /\ default_score = 0
    /\ score_change = [min |-> 0, max |-> 0]
    /\ score_memory = 0
    /\ column_map = DefaultColumnMap
    /\ max_comparisions = 0
    /\ has_rankings = FALSE
    /\ rankings = <<>>
    /\ run_idx = 0
    /\ save_to_disk = FALSE
    /\ csv = <<>>
    /\ last_call = NoCall

Init == NoObject /\ NotApplied

Next ==
    \/ __init__
    \/ score_update_call
    \/ run_begin
    \/ run_row
    \/ run_end
    \/ board_append

Spec == Init /\ [][Next]_vars

\* ---------------------------------------------------------------- rating arithmetic
\* expected_score and new_rating compute on Python floats.  A float is held
\* as a whole number of 1/One parts, and every division rounds to the nearest
\* part, so that a sum of two quotients can miss the exact result by a part
\* as a sum of two doubles can miss it by an ulp.  One stands for 1.0
\* (elo.py:91).
One == 10000

\* Ratings lie on a 100-point grid, so that (score_image_1 - score_image_0) /
\* 400.00 is a whole number of quarters.  1400 is the default score; 125000 is
\* far enough from the others for 10 ** x to leave the range of a double.
Ratings == {1400, 1500, 2000, 125000}
\* image_expected_score arguments of new_rating: 0.0, 0.5 (test_elo.py:35-47), 1.0.
ExpectedScores == {0, One \div 2, One}

\* What a float computation returned or raised.
Returned(value) == [value |-> value, error |-> NoError]
Raises(type, line) == [value |-> 0, error |-> Raised(type, line)]

\* x / y rounded to the nearest part, for x >= 0 and y > 0.
RoundDiv(x, y) == (2 * x + y) \div (2 * y)

\* 10 ** 0.0, 10 ** 0.25, 10 ** 0.5, 10 ** 0.75 in parts of One.
QuarterPowers == <<10000, 17783, 31623, 56234>>

\* 10 ** (quarters / 4) in parts of One; below 10 ** -5.25 it rounds to no part.
Pow10(quarters) ==
    LET decades == quarters \div 4
        mantissa == QuarterPowers[(quarters % 4) + 1]
    IN IF decades >= 0 THEN mantissa * 10 ^ decades
       ELSE IF decades < -5 THEN 0
       ELSE RoundDiv(mantissa, 10 ^ (-decades))

\* 10 ** x raises OverflowError when x exceeds log10 of the largest double,
\* 308.25..., that is when the ratings are more than 123301 points apart.
MaxExponentGap == 123301

expected_score_no_offset(score_image_0, score_image_1) ==
    LET quarters == (score_image_1 - score_image_0) \div 100 IN
    IF score_image_1 - score_image_0 > MaxExponentGap THEN Raises("OverflowError", 91)
    ELSE IF quarters \div 4 > 4 THEN Returned(0)
    ELSE IF Pow10(quarters) = 0 THEN Raises("ZeroDivisionError", 91)
    ELSE Returned(RoundDiv(One * One, Pow10(quarters)))

expected_score_two_plus(score_image_0, score_image_1) ==
    LET quarters == (score_image_1 - score_image_0) \div 100 IN
    IF score_image_1 - score_image_0 > MaxExponentGap THEN Raises("OverflowError", 91)
    ELSE IF quarters \div 4 > 4 THEN Returned(0)
    ELSE Returned(RoundDiv(One * One, 2 * One + Pow10(quarters)))

\* elo.py:76-92: 1.0 / (1.0 + 10 ** ((score_image_1 - score_image_0) / 400.00)).
\* From 10 ** 5 on the quotient is less than half a part.
expected_score(score_image_0, score_image_1) ==
    LET quarters == (score_image_1 - score_image_0) \div 100 IN
    IF score_image_1 - score_image_0 > MaxExponentGap THEN Raises("OverflowError", 91)
    ELSE IF quarters \div 4 > 4 THEN Returned(0)
    ELSE Returned(RoundDiv(One * One, One + Pow10(quarters)))

new_rating_subtracts(rating_for_image, k_value_for_image, score_for_image, image_expected_score) ==
    rating_for_image * One - k_value_for_image * (score_for_image * One - image_expected_score)

\* elo.py:94-117: rating_for_image + k_value * (score_for_image -
\* image_expected_score), in parts of One; the rating and the K value are
\* whole numbers, the expected score is in parts of One.
new_rating(rating_for_image, k_value_for_image, score_for_image, image_expected_score) ==
    rating_for_image * One + k_value_for_image * (score_for_image * One - image_expected_score)

new_ratings_fresh_expectation(rating_0, rating_1, k_0, k_1, score_for_image_0) ==
    LET expected_score_0 == expected_score(rating_0, rating_1) IN
    IF expected_score_0.error # NoError
    THEN [image_0 |-> 0, image_1 |-> 0, error |-> expected_score_0.error]
    ELSE LET expected_score_1 == expected_score(rating_1, rating_0).value IN
         [image_0 |-> new_rating(rating_0, k_0, score_for_image_0, expected_score_0.value),
          image_1 |-> new_rating(rating_1, k_1, 1 - score_for_image_0, expected_score_1),
          error |-> NoError]

new_ratings_same_score(rating_0, rating_1, k_0, k_1, score_for_image_0) ==
    LET expected_score_0 == expected_score(rating_0, rating_1) IN
    IF expected_score_0.error # NoError
    THEN [image_0 |-> 0, image_1 |-> 0, error |-> expected_score_0.error]
    ELSE LET expected_score_1 == One - expected_score_0.value IN
         [image_0 |-> new_rating(rating_0, k_0, score_for_image_0, expected_score_0.value),
          image_1 |-> new_rating(rating_1, k_1, score_for_image_0, expected_score_1),
          error |-> NoError]

\* elo.py:145-150 with 160-161: the two ratings that score_update computes
\* for a match, from the players' scores and K values in self.rankings.
new_ratings(rating_0, rating_1, k_0, k_1, score_for_image_0) ==
    LET expected_score_0 == expected_score(rating_0, rating_1) IN
    IF expected_score_0.error # NoError
    THEN [image_0 |-> 0, image_1 |-> 0, error |-> expected_score_0.error]
    ELSE LET expected_score_1 == One - expected_score_0.value IN
         [image_0 |-> new_rating(rating_0, k_0, score_for_image_0, expected_score_0.value),
          image_1 |-> new_rating(rating_1, k_1, 1 - score_for_image_0, expected_score_1),
          error |-> NoError]

\* The arguments of the functions applied below.
RatingInputs ==
    [rating_0 : Ratings, rating_1 : Ratings, k_0 : KValues, k_1 : KValues,
     score : Outcomes, expected : ExpectedScores]

\* ELO.expected_score(rating_0, rating_1)
call_expected_score ==
    /\ op = "none"
    /\ op' = "expected_score"
    /\ output' = expected_score(input.rating_0, input.rating_1)
    /\ UNCHANGED <<input, elo, dataset>>

\* ELO.new_rating(rating_0, k_0, score, expected)
call_new_rating ==
    /\ op = "none"
    /\ op' = "new_rating"
    /\ output' = Returned(new_rating(input.rating_0, input.k_0, input.score, input.expected))
    /\ UNCHANGED <<input, elo, dataset>>

\* The arithmetic of a match between players rated rating_0 and rating_1.
call_new_ratings ==
    /\ op = "none"
    /\ op' = "new_ratings"
    /\ output' = new_ratings(input.rating_0, input.rating_1, input.k_0, input.k_1, input.score)
    /\ UNCHANGED <<input, elo, dataset>>

InitRating ==
    /\ NoObject
    /\ op = "none"
    /\ input \in RatingInputs
    /\ output = <<>>
    /\ dataset = <<>>

NextRating ==
    \/ call_expected_score
    \/ call_new_rating
    \/ call_new_ratings

SpecRating == InitRating /\ [][NextRating]_vars

\* ---------------------------------------------------------------- MidnightRotation
\* A datetime is held as the ordinal of its day (date.toordinal()) and its
\* hour, minute and second; obsdate strings in the default fmt carry no
\* microseconds.  A timedelta is held normalised, as Python keeps it: days of
\* either sign and 0 <= seconds < 86400.
SecondsInDay == 86400
Noon == 12
\* datetime.max is 9999-12-31 23:59:59.999999: no later day exists.
MaxOrdinal == 3652059

\* 2000-02-29, 2000-03-01 and 9999-12-31.
Days == {730179, 730180, MaxOrdinal}
Hours == {0, 1, 11, 12, 13, 23}
Minutes == {0, 47, 59}
Seconds == {0, 2, 59}
ObsDates == [day : Days, hour : Hours, minute : Minutes, second : Seconds]

SecondOfDay(t) == t.hour * 3600 + t.minute * 60 + t.second

\* datetime - datetime
Difference(t, u) ==
    LET total == (t.day - u.day) * SecondsInDay + SecondOfDay(t) - SecondOfDay(u) IN
    [days |-> total \div SecondsInDay, seconds |-> total % SecondsInDay]

get_nearest_midnight_after_noon(obsdate) ==
    IF obsdate.hour > Noon
    THEN IF obsdate.day + 1 > MaxOrdinal THEN Raises("OverflowError", 43)
         ELSE Returned([day |-> obsdate.day + 1, hour |-> 0, minute |-> 0, second |-> 0])
    ELSE Returned([day |-> obsdate.day, hour |-> 0, minute |-> 0, second |-> 0])

\* midnight_rotation.py:14-44
get_nearest_midnight(obsdate) ==
    IF obsdate.hour >= Noon
    THEN IF obsdate.day + 1 > MaxOrdinal THEN Raises("OverflowError", 43)
         ELSE Returned([day |-> obsdate.day + 1, hour |-> 0, minute |-> 0, second |-> 0])
    ELSE Returned([day |-> obsdate.day, hour |-> 0, minute |-> 0, second |-> 0])

\* midnight_rotation.py:46-77
get_seconds_to_nearest_midnight(obsdate) ==
    LET nearest_midnight == get_nearest_midnight(obsdate) IN
    IF nearest_midnight.error # NoError THEN Raises(nearest_midnight.error.type, 43)
    ELSE LET timedifference == Difference(obsdate, nearest_midnight.value) IN
         IF timedifference.days < 0
         THEN Returned(SecondsInDay - timedifference.seconds)
         ELSE Returned(-1 * timedifference.seconds)

\* MidnightRotation().get_nearest_midnight(obsdate)
call_get_nearest_midnight ==
    /\ op = "none"
    /\ op' = "get_nearest_midnight"
    /\ output' = get_nearest_midnight(input)
    /\ UNCHANGED <<input, elo, dataset>>

\* MidnightRotation().get_seconds_to_nearest_midnight(obsdate)
call_get_seconds_to_nearest_midnight ==
    /\ op = "none"
    /\ op' = "get_seconds_to_nearest_midnight"
    /\ output' = get_seconds_to_nearest_midnight(input)
    /\ UNCHANGED <<input, elo, dataset>>

InitMidnight ==
    /\ NoObject
    /\ op = "none"
    /\ input \in ObsDates
    /\ output = <<>>
    /\ dataset = <<>>

NextMidnight ==
    \/ call_get_nearest_midnight
    \/ call_get_seconds_to_nearest_midnight

SpecMidnight == InitMidnight /\ [][NextMidnight]_vars

\* ---------------------------------------------------------------- BaseTimeSeriesDataset
\* The table passed as data has at most MaxLength rows, and sequence_length
\* is at most MaxSequenceLength.
MaxLength == 7
MaxSequenceLength == 4

\* A row of the table is held as its position in the table passed as data
\* (0, 1, ...), as in the fixture of test_timeseries_dataset.py:11-19, where
\* col_1 is that position; X and y are columns of the same rows.
Table(length) == [p \in 1..length |-> p - 1]

\* X_col is ['col_1', 'col_2']; y_col is ['y'], a list that shares col_2 with
\* X_col, or a tuple.
DatasetInputs ==
    [length : 0..MaxLength, sequence_length : 0..MaxSequenceLength,
     X_col : {{"col_1", "col_2"}}, y_col : {{"y"}, {"col_2"}}, y_col_type : {"list", "tuple"},
     is_tabular : BOOLEAN, idx : {0}]

Min(a, b) == IF a <= b THEN a ELSE b

\* frame.iloc[start:stop] for 0 <= start <= stop: the rows at the positions
\* from start up to, not including, stop that the frame has.
iloc(frame, start, stop) ==
    [j \in 1..(Min(stop, Len(frame)) - Min(start, Len(frame))) |-> frame[Min(start, Len(frame)) + j]]

NoDataset == <<>>
Built(data, sequence_length, is_tabular, warned) ==
    [data |-> data, sequence_length |-> sequence_length, is_tabular |-> is_tabular,
     warned |-> warned]
Constructed(self, err) == [self |-> self, error |-> err]

\* datasets.py:110-157.  The warning of line 152 is issued and construction
\* goes on; transform is None.
BaseTimeSeriesDataset__init__(args) ==
    LET data == Table(args.length) IN
    IF args.y_col_type \notin {"str", "list"} THEN Constructed(NoDataset, Raised("TypeError", 131))
    ELSE IF args.X_col \cap args.y_col # {} THEN Constructed(NoDataset, Raised("ValueError", 133))
    ELSE IF Len(data) < args.sequence_length THEN Constructed(NoDataset, Raised("ValueError", 144))
    ELSE IF args.sequence_length > Len(data) \div 2
         THEN Constructed(NoDataset, Raised("ValueError", 146))
    ELSE IF args.sequence_length = 0 THEN Constructed(NoDataset, Raised("ZeroDivisionError", 148))
    ELSE LET residual_data_indices == Len(data) % args.sequence_length IN
         Constructed(Built(IF residual_data_indices > 0
                           THEN SubSeq(data, 1, Len(data) - residual_data_indices)
                           ELSE data,
                           args.sequence_length, args.is_tabular, residual_data_indices > 0),
                     NoError)

\* datasets.py:159-168
__len__(self) == Len(self.data) \div self.sequence_length

\* datasets.py:170-197.  X is bound at line 190 only if is_tabular; line 192
\* reads it either way.
__getitem__(self, idx) ==
    LET start == idx * self.sequence_length IN
    IF ~self.is_tabular THEN Raises("UnboundLocalError", 192)
    ELSE Returned([X |-> iloc(self.data, start, start + self.sequence_length),
                   y |-> iloc(self.data, start, start + self.sequence_length)])

\* BaseTimeSeriesDataset(data=..., X_col=..., y_col=..., sequence_length=...,
\* is_tabular=...)
construct_dataset ==
    /\ op = "none"
    /\ op' = "__init__"
    /\ LET made == BaseTimeSeriesDataset__init__(input) IN
        /\ dataset' = made.self
        /\ output' = [value |-> 0, error |-> made.error]
    /\ UNCHANGED <<input, elo>>

\* len(dataset)
call__len__ ==
    /\ dataset # NoDataset
    /\ op' = "__len__"
    /\ output' = Returned(__len__(dataset))
    /\ UNCHANGED <<input, dataset, elo>>

\* dataset[idx]
call__getitem__ ==
    /\ dataset # NoDataset
    /\ \E idx \in 0..MaxLength :
        /\ input' = [input EXCEPT !.idx = idx]
        /\ output' = __getitem__(dataset, idx)
    /\ op' = "__getitem__"
    /\ UNCHANGED <<dataset, elo>>

InitDataset ==
    /\ NoObject
    /\ op = "none"
    /\ input \in DatasetInputs
    /\ output = <<>>
    /\ dataset = NoDataset

NextDataset ==
    \/ construct_dataset
    \/ call__len__
    \/ call__getitem__

SpecDataset == InitDataset /\ [][NextDataset]_vars

\* ---------------------------------------------------------------- four players
\* An ELO object over a score board of four players, so that a match leaves
\* two players out and two matches can share no player.
Players == 1..4
\* Rows of such a board: three matches and a row of one player against itself.
PlayerRows ==
    {MkRow(1, 2, 1, ClassificationColumns), MkRow(3, 4, 0, ClassificationColumns),
     MkRow(2, 3, 1, ClassificationColumns), MkRow(4, 4, 0, ClassificationColumns)}
PlayerBoards ==
    {[columns |-> ClassificationColumns, rows |-> rs] :
        rs \in [1..1 -> PlayerRows] \cup [1..2 -> PlayerRows]}

\* ELO(score_board) with every keyword argument at its default (elo.py:15-19)
\* has returned.
InitPlayers ==
    /\ pc = "idle"
    /\ error = NoError
    /\ score_board \in PlayerBoards
    /\ k_value = 32
    /\ default_score = 1400
    /\ score_change = [min |-> 16, max |-> 32]
    /\ score_memory = 10
    /\ column_map = DefaultColumnMap
    /\ max_comparisions = 50
    /\ has_rankings = TRUE
    /\ rankings = _create_ranking(DefaultColumnMap, score_board, 1400, 32, [min |-> 16, max |-> 32])
    /\ run_idx = 0
    /\ save_to_disk = FALSE
    /\ csv = <<>>
    /\ last_call = NoCall
    /\ op = "none"
    /\ input = NoCall
    /\ output = <<>>
    /\ dataset = <<>>

\* A direct call of the public method score_update; input keeps the call
\* before it.
score_update_of_players ==
    /\ Callable
    /\ \E image_0 \in Players, image_1 \in Players, score_for_image_0 \in Outcomes :
        LET out == score_update(rankings, image_0, image_1, score_for_image_0) IN
        /\ rankings' = out.rankings
        /\ error' = out.error
        /\ pc' = IF out.error = NoError THEN "update_returned" ELSE "update_raised"
        /\ last_call' = Call(image_0, image_1, score_for_image_0, "caller")
    /\ input' = last_call
    /\ run_idx' = 0
    /\ save_to_disk' = FALSE
    /\ UNCHANGED <<score_board, k_value, default_score, score_change, score_memory,
                   column_map, max_comparisions, has_rankings, csv>>
    /\ UNCHANGED <<op, output, dataset>>

NextPlayers ==
    \/ score_update_of_players
    \/ run_begin
    \/ run_row
    \/ run_end

SpecPlayers == InitPlayers /\ [][NextPlayers]_vars

\* ---------------------------------------------------------------- properties
Ranked == DOMAIN rankings
Player0(row) == row[column_map["player 0"]]
Player1(row) == row[column_map["player 1"]]
SameIds(row) == Player0(row) = Player1(row)
KInBounds(id) ==
    /\ score_change.min <= rankings[id]["k value"]
    /\ rankings[id]["k value"] <= score_change.max
\* run() stands before a row that it will pass to score_update.
AtMatchRow == pc = "run" /\ run_idx < Len(score_board.rows)
                /\ ~SameIds(score_board.rows[run_idx + 1])
CurrentRow == score_board.rows[run_idx + 1]
\* The number of rows that are matches between two distinct ids, one of them id.
Appearances(id) ==
    Cardinality({i \in DOMAIN score_board.rows :
                    /\ ~SameIds(score_board.rows[i])
                    /\ id \in {Player0(score_board.rows[i]), Player1(score_board.rows[i])}})
AllRanked ==
    \A i \in DOMAIN score_board.rows :
        Player0(score_board.rows[i]) \in Ranked /\ Player1(score_board.rows[i]) \in Ranked

\* C1, as stated: in every reachable state, whatever k_value, min_score_change
\* and max_score_change were configured, every entity's 'k value' lies between
\* min_score_change and max_score_change.
C1_KBoundsAnyConfiguration ==
    has_rankings => \A id \in Ranked : KInBounds(id)

\* C1, amended: when the configured k_value itself lies between
\* min_score_change and max_score_change, every entity's 'k value' lies
\* between them in every reachable state.
C1_KBounds ==
    (has_rankings /\ score_change.min <= k_value /\ k_value <= score_change.max)
        => \A id \in Ranked : KInBounds(id)

C1_Witness ==
    /\ has_rankings /\ Ranked # {}
    /\ score_change.min <= k_value /\ k_value <= score_change.max
    /\ last_call.by # "none"
    /\ \A id \in Ranked : KInBounds(id)

\* C2: a row of two distinct (ranked) ids that run passes to score_update
\* completes and raises 'count' of each of its two participants by exactly 1.
C2_CountPerMatch ==
    [][(AtMatchRow /\ Player0(CurrentRow) \in Ranked /\ Player1(CurrentRow) \in Ranked)
        => /\ pc' = "run"
           /\ error' = NoError
           /\ rankings'[Player0(CurrentRow)]["count"] = rankings[Player0(CurrentRow)]["count"] + 1
           /\ rankings'[Player1(CurrentRow)]["count"] = rankings[Player1(CurrentRow)]["count"] + 1]_vars

\* C3: run replays the matches in order, each on top of the earlier ones: once
\* run has stopped on a score board whose ids are all ranked, an entity that
\* appears in two matches has been updated twice, the second time starting from
\* the record its first match left.
C3_SecondUpdateOnTopOfFirst ==
    (pc \in {"run_returned", "run_raised"} /\ AllRanked)
        => \A id \in Ranked : Appearances(id) >= 2 => rankings[id]["count"] >= 2

\* C4: run never passes a row whose two player ids are equal to score_update,
\* and handling such a row changes no record of the rankings.
C4_SelfMatchSkipped ==
    [][/\ last_call'.by = "run" => last_call'.image_0 # last_call'.image_1
       /\ (pc = "run" /\ run_idx < Len(score_board.rows) /\ SameIds(CurrentRow))
            => /\ rankings' = rankings
               /\ last_call' = last_call
               /\ pc' = "run" /\ run_idx' = run_idx + 1 /\ error' = error]_vars

C4_Witness ==
    /\ pc = "run" /\ run_idx >= 1
    /\ SameIds(score_board.rows[run_idx])

\* C5, as stated: for any configured score_memory, every entity's recent-score
\* history holds at most score_memory entries in every reachable state.
C5_HistoryWithinAnyMemory ==
    has_rankings => \A id \in Ranked : Len(rankings[id]["last scores"]) <= score_memory

\* C5, amended: for any configured score_memory >= 1, every entity's
\* recent-score history holds at most score_memory entries in every reachable
\* state.
C5_HistoryWithinMemory ==
    (has_rankings /\ score_memory >= 1)
        => \A id \in Ranked : Len(rankings[id]["last scores"]) <= score_memory

C5_Witness ==
    /\ has_rankings /\ Ranked # {} /\ score_memory = 1
    /\ last_call.by # "none"
    /\ \A id \in Ranked : Len(rankings[id]["last scores"]) = 1

\* C6: when run reaches a match that names an id that is not in the rankings,
\* the lookup raises KeyError out of run: the rankings stay as the preceding
\* rows left them, the row is not stepped over, and no later row is handled
\* unless run is called again.
C6_UnknownIdAbortsRun ==
    [][/\ (AtMatchRow /\ (Player0(CurrentRow) \notin Ranked \/ Player1(CurrentRow) \notin Ranked))
            => /\ pc' = "run_raised"
               /\ error'.type = "KeyError" /\ error'.line \in {140, 142}
               /\ rankings' = rankings
               /\ run_idx' = run_idx
       /\ pc = "run_raised" => (run_idx' = run_idx \/ run_idx' = 0)]_vars

C6_Witness ==
    /\ pc = "run_raised"
    /\ error.type = "KeyError" /\ error.line \in {140, 142}
    /\ run_idx + 1 < Len(score_board.rows)
    /\ last_call.by = "run"

\* C7: no step, a failing score_update included, changes the record of
\* exactly one of the two participants of the match it was given.
C7_BothOrNeither ==
    [][last_call'.by # "none"
        => ((last_call'.image_0 \in Ranked
                /\ rankings'[last_call'.image_0] # rankings[last_call'.image_0])
            <=> (last_call'.image_1 \in Ranked
                /\ rankings'[last_call'.image_1] # rankings[last_call'.image_1]))]_vars

C7_Witness ==
    /\ pc \in {"run_raised", "update_raised"}
    /\ error = Raised("NameError", 149)
    /\ last_call.image_0 # last_call.image_1
    /\ last_call.image_0 \in Ranked /\ last_call.image_1 \in Ranked

\* C8: whenever a column named in column_map is not a column of the score
\* board, the construction raises SunpyUserWarning and no rankings exist.
C8_MissingColumnFailsConstruction ==
    (pc # "new" /\ \E r \in Roles : column_map[r] \notin score_board.columns)
        => /\ pc = "init_raised"
           /\ error = Raised("SunpyUserWarning", 57)
           /\ ~has_rankings

C8_Witness ==
    /\ pc = "init_raised"
    /\ column_map = DefaultColumnMap
    /\ "image0_more_complex_image1" \notin score_board.columns
    /\ ~has_rankings

\* C9, as stated: a score board with no rows is rejected, so no engine with an
\* empty rankings table is ever produced.
C9_EmptyRankingsRejected ==
    ~(has_rankings /\ Ranked = {})

\* C9, amended: constructing ELO on a score board with no rows (whose mapped
\* columns exist) does not fail; it produces an engine with an empty rankings
\* table.
C9_EmptyBoardAccepted ==
    [][(pc = "new" /\ pc' # "new" /\ score_board'.rows = <<>>
            /\ \A r \in Roles : column_map'[r] \in score_board'.columns)
        => /\ pc' = "idle"
           /\ error' = NoError
           /\ has_rankings'
           /\ DOMAIN rankings' = {}]_vars

C9_Witness ==
    /\ pc = "idle" /\ has_rankings
    /\ score_board.rows = <<>>
    /\ Ranked = {}

\* C10: right after construction the rankings hold one record for each id that
\* occurs in either player column of the score board and no other, each with
\* score = default_score, k value = k_value, count = 0, std dev =
\* max_score_change and a history of exactly the default score.
C10_InitialRankings ==
    [][(pc = "new" /\ pc' = "idle")
        => /\ DOMAIN rankings' =
                {score_board'.rows[i][column_map'["player 0"]] : i \in DOMAIN score_board'.rows}
                \cup {score_board'.rows[i][column_map'["player 1"]] : i \in DOMAIN score_board'.rows}
           /\ \A id \in DOMAIN rankings' :
                /\ rankings'[id]["player id"] = id
                /\ rankings'[id]["score"] = default_score'
                /\ rankings'[id]["k value"] = k_value'
                /\ rankings'[id]["count"] = 0
                /\ rankings'[id]["std dev"] = score_change'.max
                /\ rankings'[id]["last scores"] = <<default_score'>>]_vars

C10_Witness ==
    /\ pc = "idle" /\ last_call.by = "none"
    /\ Cardinality(Ranked) = 2
    /\ Len(score_board.rows) = 1

\* ---------------------------------------------------------------- rating claims
\* C11: new_rating(old, k, actual, expected) returns old + k * (actual -
\* expected) for an actual outcome of 0 or 1; from 1400 with K = 32 and an
\* expected score of 0.5 a win gives 1416 and a loss gives 1384.
C11_NewRating ==
    op = "new_rating" =>
        /\ output.error = NoError
        /\ output.value =
              input.rating_0 * One + input.k_0 * (input.score * One - input.expected)
        /\ (input.rating_0 = 1400 /\ input.k_0 = 32 /\ 2 * input.expected = One)
              => output.value = IF input.score = 1 THEN 1416 * One ELSE 1384 * One

C11_Witness ==
    /\ op = "new_rating"
    /\ input.rating_0 = 1400 /\ input.k_0 = 32 /\ 2 * input.expected = One
    /\ input.score = 0
    /\ output.value = 1384 * One

\* C12: expected_score(r, r) is 0.5 for every rating r.
C12_EqualRatingsHalf ==
    (op = "expected_score" /\ input.rating_0 = input.rating_1)
        => output.error = NoError /\ 2 * output.value = One

C12_Witness ==
    /\ op = "expected_score"
    /\ input.rating_0 = 125000 /\ input.rating_1 = 125000
    /\ 2 * output.value = One

\* The two calls expected_score(rating_0, rating_1) and expected_score(rating_1,
\* rating_0) on the arguments of the call that was made.
Forward == expected_score(input.rating_0, input.rating_1)
Backward == expected_score(input.rating_1, input.rating_0)
BothReturn == Forward.error = NoError /\ Backward.error = NoError
Apart == IF input.rating_0 >= input.rating_1 THEN input.rating_0 - input.rating_1
         ELSE input.rating_1 - input.rating_0

AfterOutcome(score_for_image_0) ==
    new_ratings(input.rating_0, input.rating_1, input.k_0, input.k_1, score_for_image_0)

RunEnded == pc \in {"run_returned", "run_raised"}

AtSave == pc = "run" /\ run_idx = Len(score_board.rows) /\ save_to_disk

\* C16: run with save_to_disk=True persists the rankings exactly once, after
\* every row has been handled, and the step succeeds: run returns and the table
\* written holds every column of the rankings but the history of recent scores;
\* no other step, and no run with save_to_disk=False, persists anything.
C16_PersistedOnceAtTheEnd ==
    [][IF AtSave
       THEN /\ pc' = "run_returned"
            /\ error' = NoError
            /\ csv' = Append(csv, [id \in Ranked |->
                                     [c \in RankingColumns \ {"last scores"} |-> rankings[id][c]]])
       ELSE csv' = csv]_vars

\* C17: on a score board all of whose ids are ranked, run ends only once it
\* has handled every row, and by then every non-self match has been applied:
\* each entity has been counted for each of its matches.
C17_EveryMatchApplied ==
    [][(pc = "run" /\ pc' # "run" /\ AllRanked)
        => /\ run_idx' = Len(score_board.rows)
           /\ \A id \in Ranked : rankings'[id]["count"] >= Appearances(id)]_vars

\* C18: each match is committed to the store before the next row is read, so
\* that a run interrupted at any point leaves the rankings of the rows handled
\* so far: a match between ranked ids that run has passed to score_update is
\* in the counts of both its participants.
C18_MatchCommitted ==
    (last_call.by = "run" /\ last_call.image_0 \in Ranked /\ last_call.image_1 \in Ranked)
        => /\ rankings[last_call.image_0]["count"] >= 1
           /\ rankings[last_call.image_1]["count"] >= 1

\* ---------------------------------------------------------------- MidnightRotation claims
\* The midnight that get_nearest_midnight returns for the observation time.
Nearest == get_nearest_midnight(input).value
\* Seconds from the observation time to that midnight, counted forwards.
SecondsTo(midnight) == (midnight.day - input.day) * SecondsInDay - SecondOfDay(input)
Magnitude(n) == IF n < 0 THEN -n ELSE n

ColumnsAccepted == input.y_col_type = "list" /\ input.X_col \cap input.y_col = {}
\* The rows at positions first .. last of the table passed as data.
RowsFrom(first, last) == [j \in 1..(last - first + 1) |-> first + j - 1]
Kept == input.length - (input.length % input.sequence_length)

\* C20: a BaseTimeSeriesDataset built from L rows with sequence_length s, 1 <=
\* s <= L // 2, keeps all but the trailing L mod s rows, so that len(data) % s
\* = 0 and len(dataset) = (L - L mod s) // s, and its item i is the s
\* consecutive rows from i * s up to, not including, (i + 1) * s; any s greater
\* than L // 2 is rejected with ValueError.
C20_ChunksOfSequenceLength ==
    (ColumnsAccepted /\ input.sequence_length >= 1 /\ op # "none") =>
        IF input.sequence_length > input.length \div 2
        THEN dataset = NoDataset /\ output.error.type = "ValueError"
        ELSE /\ dataset # NoDataset
             /\ dataset.data = RowsFrom(0, Kept - 1)
             /\ Len(dataset.data) % input.sequence_length = 0
             /\ op = "__len__" => output = Returned(Kept \div input.sequence_length)
             /\ (op = "__getitem__" /\ input.idx < Kept \div input.sequence_length)
                   => LET chunk == RowsFrom(input.idx * input.sequence_length,
                                            (input.idx + 1) * input.sequence_length - 1)
                      IN output = Returned([X |-> chunk, y |-> chunk])

\* ---------------------------------------------------------------- update claims
\* The row run() is about to pass to score_update names two ranked ids.
AtRankedMatchRow ==
    AtMatchRow /\ Player0(CurrentRow) \in Ranked /\ Player1(CurrentRow) \in Ranked
\* The expected score of image_0 in that match, from the two scores held in
\* the rankings before the match, in parts of One.
ExpectedBefore ==
    expected_score(rankings[Player0(CurrentRow)]["score"],
                   rankings[Player1(CurrentRow)]["score"]).value

\* C21: within one score_update both new ratings come from the pre-match
\* state: expected_b is 1 - expected_a with expected_a from the two pre-match
\* scores, and the score stored for each participant is new_rating of its own
\* pre-match score and K value, its outcome and its expected score.
C21_NewScoresFromPreMatchState ==
    [][AtRankedMatchRow
        => LET a == Player0(CurrentRow)
               b == Player1(CurrentRow)
               score_for_a == CurrentRow[column_map["score for player 0"]]
           IN /\ rankings'[a]["score"] * One =
                    new_rating(rankings[a]["score"], rankings[a]["k value"],
                               score_for_a, ExpectedBefore)
              /\ rankings'[b]["score"] * One =
                    new_rating(rankings[b]["score"], rankings[b]["k value"],
                               1 - score_for_a, One - ExpectedBefore)]_vars

\* The participants of the latest score_update, when both are ranked.
UpdatedPair ==
    IF last_call.by # "none" /\ last_call.image_0 \in Ranked /\ last_call.image_1 \in Ranked
    THEN {last_call.image_0, last_call.image_1}
    ELSE {}

RECURSIVE SumOf(_)
SumOf(s) == IF s = <<>> THEN 0 ELSE Head(s) + SumOf(Tail(s))
RECURSIVE SumOfSquares(_)
SumOfSquares(s) == IF s = <<>> THEN 0 ELSE Head(s) * Head(s) + SumOfSquares(Tail(s))
\* d is the population standard deviation of the scores s: d >= 0 and
\* d * d is the mean of the squares less the square of the mean.
IsPopulationStdDev(d, s) ==
    /\ s # <<>>
    /\ d >= 0
    /\ Len(s) * Len(s) * d * d = Len(s) * SumOfSquares(s) - SumOf(s) * SumOf(s)
Clamp(x, low, high) ==
    LET raised == IF x >= low THEN x ELSE low IN IF raised <= high THEN raised ELSE high

\* C22: after any score_update each participant's stored std dev is the
\* population standard deviation of its stored history of recent scores (which
\* is below the cap of 1,000,000), so that 0 <= std dev <= 1,000,000, and its
\* stored k value is that std dev clamped into [min_score_change,
\* max_score_change].
C22_StdDevAndKOfHistory ==
    \A id \in UpdatedPair :
        /\ IsPopulationStdDev(rankings[id]["std dev"], rankings[id]["last scores"])
        /\ rankings[id]["std dev"] <= 1000000
        /\ rankings[id]["k value"] =
              Clamp(rankings[id]["std dev"], score_change.min, score_change.max)

\* The last n elements of s, or all of s if it has fewer.
LastN(s, n) == IF Len(s) <= n THEN s ELSE SubSeq(s, Len(s) - n + 1, Len(s))

\* C23: the history of recent scores is first in, first out: a match appends
\* the new score of each participant to its history and, beyond score_memory
\* entries, drops the oldest, so that after the n-th match the history is the
\* last min(n + 1, score_memory) of the default score and the n scores since.
C23_HistoryFirstInFirstOut ==
    [][AtRankedMatchRow
        => \A id \in {Player0(CurrentRow), Player1(CurrentRow)} :
              rankings'[id]["last scores"] =
                  LastN(Append(rankings[id]["last scores"], rankings'[id]["score"]),
                        score_memory)]_vars

\* ---------------------------------------------------------------- claims on four players
\* The participants of a call of score_update.
Participants(call) == {call.image_0, call.image_1}

\* C24: a match changes only the records of its two participants: a step
\* changes the record of an entity only if it is a score_update in which the
\* entity takes part, and no step creates or deletes a record, so that the set
\* of ranked ids is the same through any run.
C24_OnlyParticipantsChange ==
    [][/\ DOMAIN rankings' = DOMAIN rankings
       /\ \A id \in DOMAIN rankings :
            rankings'[id] # rankings[id]
                => last_call'.by # "none" /\ id \in Participants(last_call')]_vars

C24_Witness ==
    /\ last_call.by # "none"
    /\ last_call.image_0 # last_call.image_1
    /\ Participants(last_call) \subseteq Ranked
    /\ \E id \in Ranked \ Participants(last_call) :
        rankings[id] = NewRecord(id, default_score, k_value, score_change.max, <<default_score>>)
    /\ Ranked = image_ids(column_map, score_board)

\* The rankings that score_update leaves for a match.
After(rk, match) ==
    score_update(rk, match.image_0, match.image_1, match.score_for_image_0).rankings
RankedMatches == {Call(a, b, s, "caller") : a \in Ranked, b \in Ranked, s \in Outcomes}

\* C25: two matches that share no entity are independent: from any state,
\* applying them in either order leaves the same rankings.
C25_DisjointMatchesCommute ==
    \A first \in RankedMatches, second \in RankedMatches :
        Participants(first) \cap Participants(second) = {}
            => After(After(rankings, first), second) = After(After(rankings, second), first)

C25_Witness ==
    /\ input.by = "caller" /\ last_call.by = "caller"
    /\ input.image_0 # input.image_1 /\ last_call.image_0 # last_call.image_1
    /\ Participants(input) \cup Participants(last_call) \subseteq Ranked
    /\ Participants(input) \cap Participants(last_call) = {}

\* ---------------------------------------------------------------- order of replay
\* elo.py:183-190 as a function: the rankings that the loop of run() leaves
\* when it starts with the rankings rk and goes over rows in order; the loop
\* ends at the first row on which score_update raises.
RECURSIVE run(_, _, _)
run(rk, rows, cmap) ==
    IF rows = <<>> THEN rk
    ELSE IF IsSelfMatch(Head(rows), cmap) THEN run(rk, Tail(rows), cmap)
    ELSE LET out == score_update(rk, Head(rows)[cmap["player 0"]], Head(rows)[cmap["player 1"]],
                                 Head(rows)[cmap["score for player 0"]])
         IN IF out.error # NoError THEN out.rankings ELSE run(out.rankings, Tail(rows), cmap)

\* The scores that a run over the rows leaves in a newly constructed engine
\* with the configuration of this one.
FinalScores(rows) ==
    LET board == [columns |-> ClassificationColumns, rows |-> rows]
        rk == run(_create_ranking(DefaultColumnMap, board, default_score, k_value, score_change),
                  rows, DefaultColumnMap)
    IN [id \in DOMAIN rk |-> rk[id]["score"]]

\* C26: replay is not an order-independent reduction: there are two orderings
\* of the same matches, sharing an entity, for which run ends with different
\* final ratings.
C26_SomeReorderingChangesScores ==
    has_rankings =>
        \E first \in Rows(ClassificationColumns), second \in Rows(ClassificationColumns) :
            /\ ~IsSelfMatch(first, DefaultColumnMap)
            /\ ~IsSelfMatch(second, DefaultColumnMap)
            /\ FinalScores(<<first, second>>) # FinalScores(<<second, first>>)

\* ---------------------------------------------------------------- history claims
\* C27: in every reachable state the newest (last) entry of every entity's
\* history of recent scores is its current score.
C27_NewestEntryIsScore ==
    \A id \in Ranked :
        /\ rankings[id]["last scores"] # <<>>
        /\ rankings[id]["last scores"][Len(rankings[id]["last scores"])] = rankings[id]["score"]

C27_Witness ==
    /\ pc = "update_raised"
    /\ UpdatedPair # {}
    /\ \A id \in UpdatedPair :
        rankings[id]["last scores"][Len(rankings[id]["last scores"])] = rankings[id]["score"]

\* C28: in every reachable state with score_memory >= 1 the length of every
\* entity's history of recent scores is min(count + 1, score_memory).
C28_HistoryLength ==
    score_memory >= 1 =>
        \A id \in Ranked :
            Len(rankings[id]["last scores"]) =
                (IF rankings[id]["count"] + 1 <= score_memory
                 THEN rankings[id]["count"] + 1 ELSE score_memory)

C28_Witness ==
    /\ pc = "run_raised"
    /\ score_memory >= 1
    /\ UpdatedPair # {}
    /\ \A id \in UpdatedPair : Len(rankings[id]["last scores"]) = 1 /\ rankings[id]["count"] = 0

\* ---------------------------------------------------------------- claims on the two new ratings
\* What the match adds to the rating of image_0 and of image_1, in parts of One.
GainOf0 == output.image_0 - input.rating_0 * One
GainOf1 == output.image_1 - input.rating_1 * One

C30_WinnerUpLoserDown ==
    [][(/\ AtRankedMatchRow
        /\ rankings[Player0(CurrentRow)]["k value"] > 0
        /\ rankings[Player1(CurrentRow)]["k value"] > 0)
        => LET image_0_wins == CurrentRow[column_map["score for player 0"]] = 1
               winner == IF image_0_wins THEN Player0(CurrentRow) ELSE Player1(CurrentRow)
               loser == IF image_0_wins THEN Player1(CurrentRow) ELSE Player0(CurrentRow)
           IN /\ rankings'[winner]["score"] > rankings[winner]["score"]
              /\ rankings'[loser]["score"] < rankings[loser]["score"]]_vars

====
